---- MODULE Spec2Model ----
(***************************************************************************)
(* Model of metadata-ingestion/src/datahub/ingestion/source/metadata/      *)
(* business_glossary.py: the business glossary file source.                *)
(*                                                                         *)
(* Strings are sequences of tokens (a token is a run of characters that    *)
(* the program never splits): "Finance.Revenue" is <<"Finance", ".",       *)
(* "Revenue">>, "urn:li:glossaryTerm:x" is <<"urn:li:glossaryTerm:", "x">>.*)
(* Concatenation is \o, the empty string is << >>.                         *)
(* An Optional[T] value is None (<< >>) or Some(v) (<<v>>), so that the    *)
(* empty string and the empty list stay distinct from None.                *)
(***************************************************************************)
EXTENDS Integers, Sequences, FiniteSets, TLC

(* ------------------------------ bounds --------------------------------- *)
\* number of runs of get_workunits in one process
MaxRuns == 2
\* number of entities (nodes plus terms) of the hierarchies of ShapeGlossaries
MaxEntities == 5
\* depth of the node chains of OwnerGlossaries
MaxDepth == 2
\* length of the reference lists of RefGlossaries
MaxRefs == 2

(* ------------------------------ values --------------------------------- *)
None == << >>
Some(v) == <<v>>
Str(tok) == <<tok>>
EmptyStr == << >>

\* Python truthiness of an Optional[str] / Optional[List]: neither None nor empty
Truthy(opt) == opt # None /\ opt[1] # << >>

\* str.startswith
startswith(s, prefix) ==
    /\ Len(s) >= Len(prefix)
    /\ SubSeq(s, 1, Len(prefix)) = prefix

\* ".".join(path), "/".join(path)
RECURSIVE join(_, _)
join(sep, path) ==
    IF path = << >> THEN EmptyStr
    ELSE IF Len(path) = 1 THEN path[1]
    ELSE path[1] \o sep \o join(sep, Tail(path))

NodeUrnPrefix == Str("urn:li:glossaryNode:")
TermUrnPrefix == Str("urn:li:glossaryTerm:")

\* datahub.emitter.mce_builder.datahub_guid: a content hash of {"path": id_};
\* a string that is a function of its argument alone, different for different arguments
datahub_guid(id_) == Str("md5(") \o id_ \o Str(")")
make_user_urn(o) == Str("urn:li:corpuser:") \o o
make_group_urn(o) == Str("urn:li:corpGroup:") \o o

(* --------------------------- identifiers ------------------------------- *)
create_id_ignoring_default(path, default_id, enable_auto_id) ==
    IF enable_auto_id THEN datahub_guid(join(Str("."), path)) ELSE join(Str("."), path)

create_id_last_name(path, default_id, enable_auto_id) ==
    IF default_id # None THEN default_id[1]
    ELSE LET id_ == path[Len(path)]
         IN  IF enable_auto_id THEN datahub_guid(id_) ELSE id_

create_id(path, default_id, enable_auto_id) ==
    IF default_id # None THEN default_id[1]
    ELSE LET id_ == join(Str("."), path)
         IN  IF enable_auto_id THEN datahub_guid(id_) ELSE id_

make_glossary_node_urn(path, default_id, enable_auto_id) ==
    IF default_id # None /\ startswith(default_id[1], NodeUrnPrefix)
    THEN default_id[1]
    ELSE NodeUrnPrefix \o create_id(path, default_id, enable_auto_id)

make_glossary_term_urn(path, default_id, enable_auto_id) ==
    IF default_id # None /\ startswith(default_id[1], TermUrnPrefix)
    THEN default_id[1]
    ELSE TermUrnPrefix \o create_id(path, default_id, enable_auto_id)

(* ------------------------------ owners --------------------------------- *)
OwnerClass(urn) == [owner |-> urn, type |-> "DEVELOPER"]

get_owners(owners) ==
    LET user_meta  == IF owners.users # None
                      THEN [i \in 1..Len(owners.users[1]) |->
                                OwnerClass(make_user_urn(owners.users[1][i]))]
                      ELSE << >>
        group_meta == IF owners.groups # None
                      THEN [i \in 1..Len(owners.groups[1]) |->
                                OwnerClass(make_group_urn(owners.groups[1][i]))]
                      ELSE << >>
    IN  [aspect |-> "ownership", owners |-> user_meta \o group_meta]

valid_status == [aspect |-> "status", removed |-> FALSE]

get_mce_from_snapshot(snapshot) == [proposedSnapshot |-> snapshot]

(* ------------------------- the reference index ------------------------- *)
\* path_vs_id[key] = value on a dict; dict.get(key)
DictPut(d, key, value) ==
    [k \in (DOMAIN d) \cup {key} |-> IF k = key THEN value ELSE d[k]]
DictGet(d, key) == IF key \in DOMAIN d THEN d[key] ELSE None
EmptyDict == [k \in {} |-> None]

RECURSIVE put_terms(_, _, _)
\* for term in terms: path_vs_id[".".join(path + [term.name])] = term.id
put_terms(d, path, terms) ==
    IF terms = << >> THEN d
    ELSE put_terms(DictPut(d, join(Str("."), Append(path, Head(terms).name)), Head(terms).id),
                   path, Tail(terms))

RECURSIVE _process_child_terms(_, _, _), _process_child_nodes(_, _, _)
_process_child_terms(d, parent_node, path) ==
    LET here == Append(path, parent_node.name)
        d1 == DictPut(d, join(Str("."), here), parent_node.id)
        d2 == IF Truthy(parent_node.terms) THEN put_terms(d1, here, parent_node.terms[1]) ELSE d1
    IN  IF Truthy(parent_node.nodes)
        THEN _process_child_nodes(d2, parent_node.nodes[1], here)
        ELSE d2
\* for node in nodes: _process_child_terms(node, path)
_process_child_nodes(d, nodes, path) ==
    IF nodes = << >> THEN d
    ELSE _process_child_nodes(_process_child_terms(d, Head(nodes), path), Tail(nodes), path)

populate_terms_only(d, glossary) ==
    IF Truthy(glossary.terms) THEN put_terms(d, << >>, glossary.terms[1]) ELSE d

\* the dict after populate_path_vs_id(glossary) ran on the dict d
populate_path_vs_id(d, glossary) ==
    LET d1 == IF Truthy(glossary.nodes)
              THEN _process_child_nodes(d, glossary.nodes[1], << >>)
              ELSE d
    IN  IF Truthy(glossary.terms) THEN put_terms(d1, << >>, glossary.terms[1]) ELSE d1

(* ------------------------------ events --------------------------------- *)
\* [make_glossary_term_urn([term], path_vs_id.get(term), enable_auto_id) for term in refs]
resolve_by_name_only(idx, refs, enable_auto_id) ==
    [i \in 1..Len(refs) |-> make_glossary_term_urn(<<refs[i]>>, None, enable_auto_id)]

resolve(idx, refs, enable_auto_id) ==
    [i \in 1..Len(refs) |->
        make_glossary_term_urn(<<refs[i]>>, DictGet(idx, refs[i]), enable_auto_id)]

\* models.GlossaryTermInfoClass(...) of get_mces_from_term
term_info(glossaryTerm, parentNode, defaults) ==
    [aspect |-> "glossaryTermInfo",
     definition |-> glossaryTerm.description,
     termSource |-> IF glossaryTerm.term_source # None
                    THEN glossaryTerm.term_source ELSE defaults.source_type,
     sourceRef |-> IF Truthy(glossaryTerm.source_ref)
                   THEN glossaryTerm.source_ref ELSE Some(defaults.source),
     sourceUrl |-> IF Truthy(glossaryTerm.source_url)
                   THEN glossaryTerm.source_url ELSE defaults.url,
     parentNode |-> parentNode,
     customProperties |-> glossaryTerm.custom_properties,
     name |-> glossaryTerm.name]

related_aspects_always(idx, glossaryTerm, enable_auto_id) ==
    << [aspect |-> "glossaryRelatedTerms", isRelatedTerms |-> None,
        hasRelatedTerms |-> None, values |-> None, relatedTerms |-> None] >>

\* the list holding the relationship aspect of get_mces_from_term, or the empty list
related_aspects(idx, glossaryTerm, enable_auto_id) ==
    LET is_a == IF glossaryTerm.inherits # None
                THEN Some(resolve(idx, glossaryTerm.inherits[1], enable_auto_id)) ELSE None
        has_a == IF glossaryTerm.contains # None
                 THEN Some(resolve(idx, glossaryTerm.contains[1], enable_auto_id)) ELSE None
        values == IF glossaryTerm.values # None
                  THEN Some(resolve(idx, glossaryTerm.values[1], enable_auto_id)) ELSE None
        related_terms == IF glossaryTerm.related_terms # None
                         THEN Some(resolve(idx, glossaryTerm.related_terms[1], enable_auto_id))
                         ELSE None
    IN  IF is_a # None \/ has_a # None \/ values # None \/ related_terms # None
        THEN << [aspect |-> "glossaryRelatedTerms", isRelatedTerms |-> is_a,
                 hasRelatedTerms |-> has_a, values |-> values,
                 relatedTerms |-> related_terms] >>
        ELSE << >>

term_ownership_merged(glossaryTerm, parentOwnership) ==
    IF glossaryTerm.owners # None
    THEN [aspect |-> "ownership",
          owners |-> parentOwnership.owners \o get_owners(glossaryTerm.owners[1]).owners]
    ELSE parentOwnership

term_ownership(glossaryTerm, parentOwnership) ==
    IF glossaryTerm.owners # None THEN get_owners(glossaryTerm.owners[1]) ELSE parentOwnership

get_mces_from_term(idx, glossaryTerm, path, parentNode, parentOwnership, defaults, enable_auto_id) ==
    LET term_urn == make_glossary_term_urn(path, glossaryTerm.id, enable_auto_id)
        ownership == term_ownership(glossaryTerm, parentOwnership)
        term_browse == [aspect |-> "browsePaths",
                        paths |-> << Str("/") \o join(Str("/"), path) >>]
        aspects == << term_info(glossaryTerm, parentNode, defaults) >>
                   \o related_aspects(idx, glossaryTerm, enable_auto_id)
                   \o << ownership, term_browse >>
        term_snapshot == [kind |-> "GlossaryTermSnapshot", urn |-> term_urn,
                          aspects |-> aspects]
    IN  << get_mce_from_snapshot(term_snapshot) >>

node_ownership(glossaryNode, parentOwners) ==
    IF glossaryNode.owners # None THEN get_owners(glossaryNode.owners[1]) ELSE parentOwners

term_loop_first_only(idx, terms, path, parentNode, parentOwnership, defaults, enable_auto_id) ==
    IF terms = << >> THEN << >>
    ELSE get_mces_from_term(idx, Head(terms), Append(path, Head(terms).name), parentNode,
                            parentOwnership, defaults, enable_auto_id)

RECURSIVE get_mces_from_node(_, _, _, _, _, _, _), node_loop(_, _, _, _, _, _, _),
          term_loop(_, _, _, _, _, _, _)
\* for term in terms: mces += get_mces_from_term(term, path + [term.name], ...)
term_loop(idx, terms, path, parentNode, parentOwnership, defaults, enable_auto_id) ==
    IF terms = << >> THEN << >>
    ELSE get_mces_from_term(idx, Head(terms), Append(path, Head(terms).name), parentNode,
                            parentOwnership, defaults, enable_auto_id)
         \o term_loop(idx, Tail(terms), path, parentNode, parentOwnership, defaults,
                      enable_auto_id)
\* for node in nodes: mces += get_mces_from_node(node, path + [node.name], ...)
node_loop(idx, nodes, path, parentNode, parentOwners, defaults, enable_auto_id) ==
    IF nodes = << >> THEN << >>
    ELSE get_mces_from_node(idx, Head(nodes), Append(path, Head(nodes).name), parentNode,
                            parentOwners, defaults, enable_auto_id)
         \o node_loop(idx, Tail(nodes), path, parentNode, parentOwners, defaults,
                      enable_auto_id)
get_mces_from_node(idx, glossaryNode, path, parentNode, parentOwners, defaults, enable_auto_id) ==
    LET node_urn == make_glossary_node_urn(path, glossaryNode.id, enable_auto_id)
        node_info == [aspect |-> "glossaryNodeInfo",
                      definition |-> glossaryNode.description,
                      parentNode |-> parentNode,
                      name |-> glossaryNode.name]
        node_owners == node_ownership(glossaryNode, parentOwners)
        node_snapshot == [kind |-> "GlossaryNodeSnapshot", urn |-> node_urn,
                          aspects |-> <<node_info, node_owners, valid_status>>]
        mces == << get_mce_from_snapshot(node_snapshot) >>
        child_nodes == IF Truthy(glossaryNode.nodes)
                       THEN node_loop(idx, glossaryNode.nodes[1], path, Some(node_urn),
                                      node_owners, defaults, enable_auto_id)
                       ELSE << >>
        child_terms == IF Truthy(glossaryNode.terms)
                       THEN term_loop(idx, glossaryNode.terms[1], path, Some(node_urn),
                                      node_owners, defaults, enable_auto_id)
                       ELSE << >>
    IN  mces \o child_nodes \o child_terms

get_mces_terms_first(idx, glossary, enable_auto_id) ==
    LET root_owners == get_owners(glossary.owners)
    IN  (IF Truthy(glossary.terms)
         THEN term_loop(idx, glossary.terms[1], << >>, None, root_owners, glossary,
                        enable_auto_id)
         ELSE << >>)
        \o
        (IF Truthy(glossary.nodes)
         THEN node_loop(idx, glossary.nodes[1], << >>, None, root_owners, glossary,
                        enable_auto_id)
         ELSE << >>)

\* get_mces(glossary, ingestion_config), reading the module-level path_vs_id as idx
get_mces(idx, glossary, enable_auto_id) ==
    LET root_owners == get_owners(glossary.owners)
    IN  (IF Truthy(glossary.nodes)
         THEN node_loop(idx, glossary.nodes[1], << >>, None, root_owners, glossary,
                        enable_auto_id)
         ELSE << >>)
        \o
        (IF Truthy(glossary.terms)
         THEN term_loop(idx, glossary.terms[1], << >>, None, root_owners, glossary,
                        enable_auto_id)
         ELSE << >>)

(* ------------------------- input hierarchies --------------------------- *)
Finance == Str("Finance")
Revenue == Str("Revenue")
Income == Str("Income")
Profit == Str("Profit")
Tax == Str("Tax")
Dot == Str(".")

\* GlossaryTermConfig with every optional field absent
MkTerm(id, name) ==
    [id |-> id, name |-> name, description |-> Str("a term"),
     term_source |-> None, source_ref |-> None, source_url |-> None, owners |-> None,
     inherits |-> None, contains |-> None, values |-> None, related_terms |-> None,
     custom_properties |-> None]

\* GlossaryNodeConfig
MkNode(id, name, owners, terms, nodes) ==
    [id |-> id, name |-> name, description |-> Str("a node"), owners |-> owners,
     terms |-> terms, nodes |-> nodes]

\* Owners
MkOwners(users, groups) == [users |-> users, groups |-> groups]

\* BusinessGlossaryConfig: the DefaultConfig fields, version, nodes, terms
MkGlossary(owners, nodes, terms) ==
    [source |-> Str("DataHub"), owners |-> owners, url |-> None,
     source_type |-> Some(Str("INTERNAL")), version |-> Str("1"),
     nodes |-> nodes, terms |-> terms]

RootOwners == MkOwners(Some(<<Str("root")>>), Some(<<Str("admins")>>))
OwnersA == MkOwners(Some(<<Str("alice")>>), None)
OwnersB == MkOwners(None, Some(<<Str("eng")>>))
OptOwners == {None, Some(OwnersA), Some(OwnersB)}

\* a list as an Optional[List]: absent when empty
OptList(l) == IF l = << >> THEN None ELSE Some(l)

\* explicit ids: absent, empty, bare, in the urn format of either kind
NodeIds == {None, Some(Str("fin")), Some(NodeUrnPrefix \o Str("fin")),
            Some(TermUrnPrefix \o Str("fin"))}
TermIds == {None, Some(EmptyStr), Some(Str("rev")), Some(TermUrnPrefix \o Str("rev")),
            Some(NodeUrnPrefix \o Str("rev"))}

\* one node holding one term, and one root term whose name may repeat or contain a dot
IdGlossaries ==
    { MkGlossary(RootOwners,
                 Some(<< MkNode(nid, Finance, None, Some(<< MkTerm(tid, Revenue) >>), None) >>),
                 Some(<< MkTerm(rid, rname) >>)) :
        nid \in NodeIds, tid \in TermIds, rid \in TermIds,
        rname \in {Revenue, Income, Finance \o Dot \o Revenue} }

\* a chain of d nodes, each holding one term; owners declared or not at every level
RECURSIVE OwnerChain(_)
OwnerChain(d) ==
    IF d = 0 THEN {None}
    ELSE { Some(<< MkNode(None, Finance, no, Some(<< [MkTerm(None, Revenue) EXCEPT !.owners = to] >>),
                          sub) >>) :
             no \in OptOwners, to \in OptOwners, sub \in OwnerChain(d - 1) }
OwnerGlossaries ==
    { MkGlossary(ro, ns, Some(<< [MkTerm(None, Income) EXCEPT !.owners = to] >>)) :
        ro \in {RootOwners, MkOwners(None, None)}, ns \in OwnerChain(MaxDepth),
        to \in {None, Some(OwnersA)} }

\* the lists of at most n elements of S
RECURSIVE SeqsUpTo(_, _)
SeqsUpTo(S, n) ==
    IF n = 0 THEN {<< >>}
    ELSE {<< >>} \cup { <<x>> \o l : x \in S, l \in SeqsUpTo(S, n - 1) }

\* reference strings: a nested term, a root term, a root node, a dotted path, nothing
RefStrings == {Revenue, Income, Finance, Finance \o Dot \o Revenue, Tax}
RefGlossaries ==
    { MkGlossary(RootOwners,
                 Some(<< MkNode(nid, Finance, None, Some(<< MkTerm(tid, Revenue) >>), None) >>),
                 Some(IF first
                      THEN << [MkTerm(None, Profit) EXCEPT !.inherits = refs], MkTerm(iid, Income) >>
                      ELSE << MkTerm(iid, Income), [MkTerm(None, Profit) EXCEPT !.inherits = refs] >>)) :
        nid \in {None, Some(Str("fin"))}, tid \in {None, Some(Str("rev"))},
        iid \in {None, Some(Str("inc"))}, first \in BOOLEAN,
        refs \in {None} \cup { Some(l) : l \in SeqsUpTo(RefStrings, MaxRefs) } }

\* the four relationship fields: absent, declared empty, declared with one name
OptRefs == {None, Some(<< >>), Some(<< Income >>)}
RelGlossaries ==
    { MkGlossary(RootOwners, None,
                 Some(<< [MkTerm(None, Profit) EXCEPT !.inherits = i, !.contains = c,
                                                      !.values = v, !.related_terms = r],
                         MkTerm(iid, Income) >>)) :
        i \in OptRefs, c \in OptRefs, v \in OptRefs, r \in OptRefs,
        iid \in {None, Some(Str("inc"))} }

\* the three source fields: absent, declared empty, declared; at the root or in a node
OptSource == {None, Some(EmptyStr), Some(Str("own"))}
SourceGlossaries ==
    { LET t == [MkTerm(None, Revenue) EXCEPT !.term_source = ts, !.source_ref = sr,
                                             !.source_url = su]
          g == [MkGlossary(RootOwners, None, None) EXCEPT !.url = url, !.source_type = st]
      IN  IF nested
          THEN [g EXCEPT !.nodes = Some(<< MkNode(None, Finance, None, Some(<<t>>), None) >>)]
          ELSE [g EXCEPT !.terms = Some(<<t>>)] :
        ts \in OptSource, sr \in OptSource, su \in OptSource,
        url \in {None, Some(Str("https://glossary"))},
        st \in {Some(Str("INTERNAL")), Some(Str("EXTERNAL"))}, nested \in BOOLEAN }

\* the name of the i-th child: "x", "xx", "xxx", ...
RECURSIVE ChildName(_)
ChildName(i) == IF i = 0 THEN EmptyStr ELSE Str("x") \o ChildName(i - 1)

\* m terms, named by their position
RECURSIVE TermList(_)
TermList(m) == IF m = 0 THEN << >> ELSE Append(TermList(m - 1), MkTerm(None, ChildName(m)))

\* NodeLists(k, i): the lists of sibling nodes that hold k entities in all, the
\* first of them the i-th child; NodeTrees(j, i): the i-th child holding j entities
RECURSIVE NodeLists(_, _), NodeTrees(_, _)
NodeLists(k, i) ==
    IF k = 0 THEN {<< >>}
    ELSE UNION { { <<t>> \o rest : t \in NodeTrees(j, i), rest \in NodeLists(k - j, i + 1) } :
                 j \in 1..k }
NodeTrees(j, i) ==
    UNION { { MkNode(None, ChildName(i), None, OptList(TermList(m)), OptList(ns)) :
              ns \in NodeLists(j - 1 - m, 1) } : m \in 0..(j - 1) }

\* every forest of at most MaxEntities entities
ShapeGlossaries ==
    UNION { UNION { { MkGlossary(RootOwners, OptList(ns), OptList(TermList(m))) :
                      ns \in NodeLists(n - m, 1) } : m \in 0..n } : n \in 0..MaxEntities }

Glossaries ==
    IdGlossaries \cup OwnerGlossaries \cup RefGlossaries \cup RelGlossaries
    \cup SourceGlossaries \cup ShapeGlossaries

\* the glossaries of the later runs of a process
LaterGlossaries ==
    { MkGlossary(RootOwners, None,
                 Some(<< [MkTerm(None, Profit) EXCEPT !.inherits = Some(<<Income, Revenue>>)] >>)),
      MkGlossary(RootOwners, None,
                 Some(<< MkTerm(None, Income),
                         [MkTerm(None, Profit) EXCEPT !.related_terms = Some(<<Income>>)] >>)),
      MkGlossary(RootOwners,
                 Some(<< MkNode(None, Income, None, None, None) >>),
                 Some(<< [MkTerm(None, Profit) EXCEPT !.contains = Some(<<Finance>>)] >>)) }

(* ------------------------------- state --------------------------------- *)
VARIABLES
    glossary,        \* the parsed glossary file of the current run
    enable_auto_id,  \* self.config.enable_auto_id of the current source
    path_vs_id,      \* the module-level dict path_vs_id
    mces,            \* the list get_mces returned in the current run
    report,          \* the ids of the work units reported and yielded in the current run
    pc,              \* position in get_workunits
    runs             \* runs of get_workunits started in this process

vars == <<glossary, enable_auto_id, path_vs_id, mces, report, pc, runs>>

\* the module is imported and a source is created for a glossary file
Init ==
    /\ glossary \in Glossaries
    /\ enable_auto_id \in BOOLEAN
    /\ path_vs_id = EmptyDict
    /\ mces = << >>
    /\ report = << >>
    /\ pc = "created"
    /\ runs = 1

\* get_workunits: load_glossary_config, populate_path_vs_id(glossary_config)
PopulatePathVsId ==
    /\ pc = "created"
    /\ path_vs_id' = populate_path_vs_id(path_vs_id, glossary)
    /\ pc' = "populated"
    /\ UNCHANGED <<glossary, enable_auto_id, mces, report, runs>>

\* get_workunits: get_mces(glossary_config, ingestion_config=self.config)
GetMces ==
    /\ pc = "populated"
    /\ mces' = get_mces(path_vs_id, glossary, enable_auto_id)
    /\ pc' = "yielding"
    /\ UNCHANGED <<glossary, enable_auto_id, path_vs_id, report, runs>>

\* get_workunits: one turn of the loop, report_workunit(wu) and yield wu
YieldWorkUnit ==
    /\ pc = "yielding"
    /\ Len(report) < Len(mces)
    /\ report' = Append(report, mces[Len(report) + 1].proposedSnapshot.urn)
    /\ UNCHANGED <<glossary, enable_auto_id, path_vs_id, mces, pc, runs>>

\* get_workunits: the loop is over, the generator returns
Return ==
    /\ pc = "yielding"
    /\ Len(report) = Len(mces)
    /\ pc' = "done"
    /\ UNCHANGED <<glossary, enable_auto_id, path_vs_id, mces, report, runs>>

\* another source is created in the same process; path_vs_id is module-level and stays
NewRun ==
    /\ pc = "done"
    /\ runs < MaxRuns
    /\ glossary' \in LaterGlossaries
    /\ enable_auto_id' \in BOOLEAN
    /\ mces' = << >>
    /\ report' = << >>
    /\ pc' = "created"
    /\ runs' = runs + 1
    /\ UNCHANGED path_vs_id

Next == PopulatePathVsId \/ GetMces \/ YieldWorkUnit \/ Return \/ NewRun

Spec == Init /\ [][Next]_vars

(* ------------------- the hierarchy, seen from outside ------------------ *)
\* the elements of an Optional[List]
ListOf(opt) == IF opt = None THEN << >> ELSE opt[1]

\* Every entity of a hierarchy with its kind, its configuration, its path of names,
\* the configurations of its enclosing nodes (outermost first) and its position:
\* the child nodes of a parent are numbered 1..n in input order and its child
\* terms n+1..n+m in input order.
RECURSIVE NodeEntities(_, _, _, _)
NodeEntities(node, path, pos, chain) ==
    LET ns == ListOf(node.nodes)
        ts == ListOf(node.terms)
        here == Append(path, node.name)
        inner == Append(chain, node)
    IN  {[kind |-> "node", cfg |-> node, path |-> here, pos |-> pos, chain |-> chain]}
        \cup UNION { NodeEntities(ns[k], here, Append(pos, k), inner) : k \in 1..Len(ns) }
        \cup { [kind |-> "term", cfg |-> ts[k], path |-> Append(here, ts[k].name),
                pos |-> Append(pos, Len(ns) + k), chain |-> inner] : k \in 1..Len(ts) }

Entities(g) ==
    LET ns == ListOf(g.nodes)
        ts == ListOf(g.terms)
    IN  UNION { NodeEntities(ns[k], << >>, <<k>>, << >>) : k \in 1..Len(ns) }
        \cup { [kind |-> "term", cfg |-> ts[k], path |-> <<ts[k].name>>,
                pos |-> <<Len(ns) + k>>, chain |-> << >>] : k \in 1..Len(ts) }

\* a position comes before another: it is a proper prefix of it, or smaller at the
\* first index where they differ
RECURSIVE Before(_, _)
Before(p, q) ==
    IF p = << >> THEN q # << >>
    ELSE IF q = << >> THEN FALSE
    ELSE IF p[1] # q[1] THEN p[1] < q[1]
    ELSE Before(Tail(p), Tail(q))

\* the place of an entity in the pre-order, nodes before terms
Rank(e) == 1 + Cardinality({ f \in Entities(glossary) : Before(f.pos, e.pos) })

\* the snapshot at the entity's place in the list get_mces returned
RecordOf(e) == mces[Rank(e)].proposedSnapshot

Aspects(snapshot, tag) == SelectSeq(snapshot.aspects, LAMBDA a : a.aspect = tag)

\* the info aspect of a snapshot of either kind
InfoOf(snapshot) ==
    IF snapshot.kind = "GlossaryNodeSnapshot"
    THEN Aspects(snapshot, "glossaryNodeInfo")[1]
    ELSE Aspects(snapshot, "glossaryTermInfo")[1]

\* get_mces has returned in the current run
Built == pc \in {"yielding", "done"}

Terms == { e \in Entities(glossary) : e.kind = "term" }
Nodes == { e \in Entities(glossary) : e.kind = "node" }

OwnPrefix(e) == IF e.kind = "node" THEN NodeUrnPrefix ELSE TermUrnPrefix
DottedPath(e) == join(Dot, e.path)

(* ------------------------------- C1 ------------------------------------ *)
\* C1: for every node and term that declares an explicit id, with enable_auto_id
\* false or true, the identifier of its record is that id unchanged when the id
\* starts with the urn prefix of the entity's own kind, and otherwise that id
\* unchanged after that prefix; where this differs from the identifier of the dotted
\* path or of its hash, the record carries neither of those.
C1_ExplicitIdVerbatim ==
    Built =>
        \A e \in Entities(glossary) :
            e.cfg.id # None =>
                LET id == e.cfg.id[1]
                    urn == RecordOf(e).urn
                    verbatim == IF startswith(id, OwnPrefix(e)) THEN id
                                ELSE OwnPrefix(e) \o id
                IN  /\ urn = verbatim
                    /\ \A derived \in {OwnPrefix(e) \o DottedPath(e),
                                       OwnPrefix(e) \o datahub_guid(DottedPath(e))} :
                           derived # verbatim => urn # derived

\* a run with hashing enabled has built the record of a node with a bare id and of a
\* term whose id is in the term urn format
C1_Witness ==
    /\ Built
    /\ enable_auto_id
    /\ \E n \in Nodes : n.cfg.id = Some(Str("fin")) /\ RecordOf(n).urn = NodeUrnPrefix \o Str("fin")
    /\ \E t \in Terms : /\ t.cfg.id = Some(TermUrnPrefix \o Str("rev"))
                        /\ RecordOf(t).urn = TermUrnPrefix \o Str("rev")

(* ------------------------------- C2 ------------------------------------ *)
\* the owners an entity is to carry: its own, else those of the nearest enclosing
\* node that declares owners, else the glossary's
RECURSIVE NearestOwners(_, _)
NearestOwners(declared, fallback) ==
    IF declared = << >> THEN fallback
    ELSE IF declared[Len(declared)].owners # None THEN declared[Len(declared)].owners[1]
    ELSE NearestOwners(SubSeq(declared, 1, Len(declared) - 1), fallback)

\* C2: every record carries exactly one ownership aspect, and it is made of the
\* owners the entity declares, else of those of its nearest enclosing node that
\* declares owners, else of the glossary's default owners; never of a merge.
C2_OwnersNearestDeclared ==
    Built =>
        \A e \in Entities(glossary) :
            Aspects(RecordOf(e), "ownership")
                = << get_owners(NearestOwners(Append(e.chain, e.cfg), glossary.owners)) >>

\* a term without owners under a node without owners under a node that declares
\* owners, and a term that declares owners under a node that declares others
C2_Witness ==
    /\ Built
    /\ \E t \in Terms :
          /\ Len(t.chain) = 2 /\ t.cfg.owners = None
          /\ t.chain[2].owners = None /\ t.chain[1].owners = Some(OwnersB)
          /\ Aspects(RecordOf(t), "ownership") = << get_owners(OwnersB) >>
    /\ \E t \in Terms :
          /\ Len(t.chain) = 1 /\ t.cfg.owners = Some(OwnersA)
          /\ t.chain[1].owners = Some(OwnersB)

(* ------------------------------- C3 ------------------------------------ *)
RefFields == {"inherits", "contains", "values", "related_terms"}

\* the field of the relationship aspect that a field of the term fills
ResolvedField(aspect, f) ==
    CASE f = "inherits" -> aspect.isRelatedTerms
      [] f = "contains" -> aspect.hasRelatedTerms
      [] f = "values" -> aspect.values
      [] f = "related_terms" -> aspect.relatedTerms

\* the term identifier built from an explicit id, and the one derived from the
\* single-segment path that holds the reference string alone
UrnOfExplicit(id) == IF startswith(id, TermUrnPrefix) THEN id ELSE TermUrnPrefix \o id
UrnOfName(r) == TermUrnPrefix \o (IF enable_auto_id THEN datahub_guid(r) ELSE r)

\* the entities of the hierarchy, of either kind, whose dotted path is the string r
Holders(r) == { e \in Entities(glossary) : DottedPath(e) = r }

\* every list a term declares is resolved into the field of the one relationship
\* aspect, name by name
ReferencesResolved ==
    \A t \in Terms : \A f \in RefFields :
        t.cfg[f] # None =>
            LET asp == Aspects(RecordOf(t), "glossaryRelatedTerms")
            IN  /\ Len(asp) = 1
                /\ ResolvedField(asp[1], f) # None
                /\ Len(ResolvedField(asp[1], f)[1]) = Len(t.cfg[f][1])

\* the pairs of a reference string and the identifier it was resolved to
References ==
    UNION { UNION { { << t.cfg[f][1][k],
                         ResolvedField(Aspects(RecordOf(t), "glossaryRelatedTerms")[1], f)[1][k] >> :
                      k \in 1..Len(ListOf(t.cfg[f])) } : f \in RefFields } : t \in Terms }

\* C3 as stated: a bare name resolves to the identifier built from the explicit id
\* of a term of that name wherever that term is in the hierarchy, and otherwise to
\* the identifier derived from the name alone.
C3_AsStated ==
    Built =>
        /\ ReferencesResolved
        /\ \A ref \in References :
              LET named == { e \in Terms : e.cfg.name = ref[1] /\ e.cfg.id # None }
              IN  IF named # {}
                  THEN \E e \in named : ref[2] = UrnOfExplicit(e.cfg.id[1])
                  ELSE ref[2] = UrnOfName(ref[1])

\* C3 (amended): a reference string resolves to the identifier built from the
\* explicit id that the index holds under the key equal to that string, and to the
\* identifier derived from the string alone when the index holds no id under it.
\* In the first run of a process the index holds, under a key, the id of the entity
\* (node or term) whose full dotted path is that key: a reference matched by no
\* entity's dotted path with an id is derived from the string alone, however many
\* nested terms carry it as their name, and a reference matched only by entities
\* declaring one same id is built from that id.
C3_ResolvedThroughDottedPath ==
    Built =>
        /\ ReferencesResolved
        /\ \A ref \in References :
              LET r == ref[1]
                  u == ref[2]
              IN  /\ DictGet(path_vs_id, r) # None
                        => u = UrnOfExplicit(DictGet(path_vs_id, r)[1])
                  /\ DictGet(path_vs_id, r) = None => u = UrnOfName(r)
                  /\ runs = 1 =>
                        /\ (\A e \in Holders(r) : e.cfg.id = None) => u = UrnOfName(r)
                        /\ \A e \in Holders(r) :
                              (e.cfg.id # None /\ \A h \in Holders(r) : h.cfg.id = e.cfg.id)
                                  => u = UrnOfExplicit(e.cfg.id[1])

\* in a first run, a term references by name a root term with an id that is defined
\* after it and a term with an id nested under a node: the root term's id is used,
\* the nested term's is not
C3_Witness ==
    /\ Built
    /\ runs = 1
    /\ \E t \in Terms : \E n \in Terms : \E i \in Terms :
          /\ t.cfg.inherits = Some(<<Income, Revenue>>)
          /\ i.cfg.name = Income /\ i.cfg.id = Some(Str("inc")) /\ Before(t.pos, i.pos)
          /\ n.cfg.name = Revenue /\ n.cfg.id = Some(Str("rev")) /\ Len(n.path) = 2
          /\ Aspects(RecordOf(t), "glossaryRelatedTerms")[1].isRelatedTerms
                = Some(<<TermUrnPrefix \o Str("inc"), UrnOfName(Revenue)>>)

C5_IndexScopedToRun ==
    Built =>
        mces = get_mces(populate_path_vs_id(EmptyDict, glossary), glossary, enable_auto_id)

(* ------------------------------- C6 ------------------------------------ *)
\* C6 as stated: in the list of one run no two records carry the same identifier.
C6_AsStated ==
    Built =>
        \A i \in 1..Len(mces) : \A j \in 1..Len(mces) :
            i # j => mces[i].proposedSnapshot.urn # mces[j].proposedSnapshot.urn

\* the position of the parent of the entity at position p
ParentPos(p) == SubSeq(p, 1, Len(p) - 1)

\* no entity declares an id, no name holds a dot, and two nodes, or two terms, of
\* one parent never share a name
PathsIdentify ==
    /\ \A e \in Entities(glossary) :
          /\ e.cfg.id = None
          /\ \A k \in 1..Len(e.cfg.name) : e.cfg.name[k] # "."
    /\ \A e \in Entities(glossary) : \A f \in Entities(glossary) :
          (e.kind = f.kind /\ e.pos # f.pos /\ ParentPos(e.pos) = ParentPos(f.pos))
              => e.cfg.name # f.cfg.name

\* C6 (amended): in a hierarchy in which no entity declares an explicit id, no name
\* contains a dot and no two nodes and no two terms of the same parent share a name,
\* no two records of a run carry the same identifier (with enable_auto_id, as long
\* as datahub_guid gives different dotted paths different hashes).
C6_UniqueWhenPathsIdentify ==
    (Built /\ PathsIdentify) =>
        /\ Len(mces) = Cardinality(Entities(glossary))
        /\ \A i \in 1..Len(mces) : \A j \in 1..Len(mces) :
              i # j => mces[i].proposedSnapshot.urn # mces[j].proposedSnapshot.urn

\* a hierarchy of that kind with two terms of the same name in different branches and
\* a node and a term of the same path
C6_Witness ==
    /\ Built
    /\ PathsIdentify
    /\ \E t \in Terms : \E u \in Terms : t.pos # u.pos /\ t.cfg.name = u.cfg.name
    /\ \E t \in Terms : \E n \in Nodes : t.path = n.path

(* ------------------------------- C7 ------------------------------------ *)
\* C7: the list is the pre-order of the hierarchy, child nodes before child terms:
\* the record at the place of an entity is a record of its kind with its name (and,
\* for a term, its browse path), a root entity's record names no parent, and every
\* other record names as its parent the identifier of the record at the place of the
\* entity's parent node, which is an earlier place.
C7_PreOrder ==
    Built =>
        /\ Len(mces) = Cardinality(Entities(glossary))
        /\ \A e \in Entities(glossary) :
              LET rec == RecordOf(e)
              IN  /\ rec.kind = (IF e.kind = "node" THEN "GlossaryNodeSnapshot"
                                 ELSE "GlossaryTermSnapshot")
                  /\ InfoOf(rec).name = e.cfg.name
                  /\ e.kind = "term" =>
                        Aspects(rec, "browsePaths")[1].paths
                            = << Str("/") \o join(Str("/"), e.path) >>
                  /\ IF Len(e.pos) = 1
                     THEN InfoOf(rec).parentNode = None
                     ELSE \E p \in Nodes :
                             /\ p.pos = ParentPos(e.pos)
                             /\ Rank(p) < Rank(e)
                             /\ InfoOf(rec).parentNode = Some(RecordOf(p).urn)

\* a node with a child node that holds a term, and with a term of its own, next to a
\* root term: node, child node, the child node's term, the node's term, the root term
C7_Witness ==
    /\ Built
    /\ \E n \in Nodes : \E c \in Nodes : \E g \in Terms : \E t \in Terms : \E r \in Terms :
          /\ Len(n.pos) = 1 /\ Len(r.pos) = 1
          /\ ParentPos(c.pos) = n.pos /\ ParentPos(t.pos) = n.pos /\ ParentPos(g.pos) = c.pos
          /\ Rank(n) + 1 = Rank(c) /\ Rank(c) + 1 = Rank(g) /\ Rank(g) + 1 = Rank(t)
          /\ Rank(t) < Rank(r)
          /\ InfoOf(mces[Rank(g)].proposedSnapshot).parentNode = Some(RecordOf(c).urn)

(* ------------------------------- C8 ------------------------------------ *)
\* the index holds an entry for the dotted path of every node and term
C8_Indexed == \A e \in Entities(glossary) : DottedPath(e) \in DOMAIN path_vs_id

\* a step taken during the resolve/emit pass leaves the index as it is
C8_IndexReadOnly == pc \in {"populated", "yielding"} => path_vs_id' = path_vs_id

\* C8: once populate_path_vs_id has returned, so before get_mces resolves a
\* reference and before a work unit is yielded, the index holds an entry for the
\* dotted path of every node and every term of the hierarchy; and no step of the
\* resolve/emit pass writes the index.
C8_TwoPasses ==
    /\ [](pc \in {"populated", "yielding", "done"} => C8_Indexed)
    /\ [](report # << >> => C8_Indexed)
    /\ [][C8_IndexReadOnly]_vars

\* work units are being yielded for a hierarchy with a node, a term inside it and a
\* term that lists references
C8_Witness ==
    /\ pc = "yielding"
    /\ report # << >>
    /\ C8_Indexed
    /\ \E t \in Terms : t.cfg.inherits # None /\ t.cfg.inherits # Some(<< >>)
    /\ \E t \in Terms : Len(t.pos) = 2

(* ------------------------------- C9 ------------------------------------ *)
\* C9: each of the three source fields of a term's record is the term's own value
\* when the term declares one, an empty string included, and the glossary default of
\* that field otherwise.
C9_AsStated ==
    Built =>
        \A t \in Terms :
            LET info == InfoOf(RecordOf(t))
            IN  /\ info.termSource = (IF t.cfg.term_source # None THEN t.cfg.term_source
                                      ELSE glossary.source_type)
                /\ info.sourceRef = (IF t.cfg.source_ref # None THEN t.cfg.source_ref
                                     ELSE Some(glossary.source))
                /\ info.sourceUrl = (IF t.cfg.source_url # None THEN t.cfg.source_url
                                     ELSE glossary.url)

(* ------------------------------- C10 ----------------------------------- *)
RECURSIVE NumNodes(_), NumTerms(_)
\* the nodes, and the terms, in a list of nodes and below
NumNodes(nodes) ==
    IF nodes = << >> THEN 0
    ELSE 1 + NumNodes(ListOf(Head(nodes).nodes)) + NumNodes(Tail(nodes))
NumTerms(nodes) ==
    IF nodes = << >> THEN 0
    ELSE Len(ListOf(Head(nodes).terms)) + NumTerms(ListOf(Head(nodes).nodes))
         + NumTerms(Tail(nodes))

RecordsOfKind(kind) == { i \in 1..Len(mces) : mces[i].proposedSnapshot.kind = kind }

\* C10: get_mces returns for every hierarchy, and the list it returns holds one
\* record per node and one record per term, as many records as the forest has nodes
\* and terms; each term's browse path is on as many records as there are terms of
\* that path; the generator yields each record once and returns.
C10_OneRecordPerEntity ==
    /\ pc = "populated" => ENABLED GetMces
    /\ Built =>
          /\ Cardinality(RecordsOfKind("GlossaryNodeSnapshot")) = NumNodes(ListOf(glossary.nodes))
          /\ Cardinality(RecordsOfKind("GlossaryTermSnapshot"))
                = NumTerms(ListOf(glossary.nodes)) + Len(ListOf(glossary.terms))
          /\ Len(mces) = NumNodes(ListOf(glossary.nodes)) + NumTerms(ListOf(glossary.nodes))
                         + Len(ListOf(glossary.terms))
          /\ \A t \in Terms :
                Cardinality({ i \in RecordsOfKind("GlossaryTermSnapshot") :
                                Aspects(mces[i].proposedSnapshot, "browsePaths")[1].paths
                                    = << Str("/") \o join(Str("/"), t.path) >> })
                    = Cardinality({ u \in Terms : u.path = t.path })
          /\ Len(report) <= Len(mces)
          /\ pc = "done" => Len(report) = Len(mces)

\* a run has returned after yielding the records of a forest of two root nodes, a
\* node inside a node and terms at the root and in a node
C10_Witness ==
    /\ pc = "done"
    /\ Len(report) = Len(mces)
    /\ Len(ListOf(glossary.nodes)) = 2
    /\ \E n \in Nodes : Len(n.pos) = 2
    /\ \E t \in Terms : Len(t.pos) = 1
    /\ \E t \in Terms : Len(t.pos) = 2
====
